---- MODULE Spec2Model ----
(***************************************************************************)
(* A model of the composition handler of draft-js (module                  *)
(* DraftEditorCompositionHandler, the variant with onBlur and the IE11     *)
(* Korean recovery), of the entity/style range codec and of the isKorean   *)
(* classifiers.                                                            *)
(*                                                                         *)
(* Strings are sequences of UTF-16 code units (integers); '' is << >>.     *)
(* The handler's module-level `let` variables are the state; every event   *)
(* handler is one action; the callback passed to setTimeout is one action  *)
(* (Fire).  `calls` is the list of host calls the last handler made on the  *)
(* editor and the timer queue; e.preventDefault(), which acts on the event *)
(* alone, is not recorded.  `editorState` is what the last                 *)
(* resolveComposition read from the editor.                                *)
(***************************************************************************)
EXTENDS Integers, Sequences, FiniteSets, TLC

(* ------------------------------ bounds -------------------------------- *)
\* longest textInputData the model lets the handlers build
MaxBuf == 2
\* most setTimeout callbacks outstanding at once
MaxTimers == 2
\* longest block text of the range codec, in UTF-16 code units
MaxText == 3
\* longest text handed to the decoders together with stored ranges, in code units
MaxUnits == 4

(* --------------------------- program constants ------------------------ *)
\* line 102
RESOLVE_DELAY == 20

(* ------------------------------ strings ------------------------------- *)
\* "ㅇ" U+3147 (Hangul compatibility jamo)
JAMO == <<12615>>
\* "여" U+C5EC (Hangul syllable)
SYL == <<50668>>
\* "a"
LATIN == <<97>>
\* "\n"
NEWLINE == <<10>>
EMPTY == << >>

\* e.data of the composition events the model delivers
Data == {EMPTY, JAMO, LATIN}
\* e.data of the textInput events the model delivers: the text being inserted, never
\* empty.  A fragment holding a control character is delivered only while isKoreanOnIE
\* holds: line 157 reads the control character nowhere else, so elsewhere it is a
\* fragment like any other.
InputData == {JAMO, LATIN, NEWLINE, JAMO \o JAMO}

\* String.prototype.charAt: '' outside the string (indices from 0)
charAt(s, i) == IF i >= 0 /\ i < Len(s) THEN <<s[i + 1]>> ELSE EMPTY
\* String.prototype.substring(0, n), a negative n counting as 0
substring0(s, n) == IF n <= 0 THEN EMPTY ELSE SubSeq(s, 1, IF n < Len(s) THEN n ELSE Len(s))

(* ---------------------------- classifier ------------------------------ *)
\* isKorean.js: /[ᄀ-ᇿ㄰-㆏가-힯ꥠ-꥿ힰ-퟿]/
KOREAN_UNICODE_RANGES ==
  { <<4352, 4607>>, <<12592, 12687>>, <<44032, 55215>>, <<43360, 43391>>, <<55216, 55295>> }

inKoreanRanges(code) == \E r \in KOREAN_UNICODE_RANGES : code >= r[1] /\ code <= r[2]

\* mutant: the syllable range ends at U+D7A3
isKoreanUpToD7A3(char) ==
  \E k \in 1..Len(char) : inKoreanRanges(char[k]) /\ ~(char[k] > 55203 /\ char[k] < 55216)

\* RegExp.test: some code unit of the string is in the character class
isKorean(char) == \E k \in 1..Len(char) : inKoreanRanges(char[k])

\* the legacy handler's table (DraftEditorCompositionHandler.js lines 82-88), in its
\* order, and its isKorean(charCode): Array.prototype.find gives the first range
\* holding the code, or undefined (here << >>)
LEGACY_KOREAN_UNICODE_RANGES ==
  << <<44032, 55203>>, <<4352, 4607>>, <<12592, 12687>>, <<43360, 43391>>,
     <<55216, 55295>> >>
isKoreanLegacy(charCode) ==
  LET hits == {k \in 1..Len(LEGACY_KOREAN_UNICODE_RANGES) :
                 /\ charCode >= LEGACY_KOREAN_UNICODE_RANGES[k][1]
                 /\ charCode <= LEGACY_KOREAN_UNICODE_RANGES[k][2]}
  IN  IF hits = {}
      THEN << >>
      ELSE LEGACY_KOREAN_UNICODE_RANGES[CHOOSE k \in hits : \A j \in hits : k <= j]
\* the truth value of what isKoreanLegacy returns
truthy(found) == found # << >>

\* /[\r\n\u001b]/.test(data)
hasControlChar(data) == \E k \in 1..Len(data) : data[k] \in {13, 10, 27}

(* ------------------------------ platform ------------------------------ *)
\* the UserAgent answers cached at module load (lines 141-144)
Platforms ==
  { [isIE |-> TRUE,  isEdge |-> FALSE, isWin10 |-> FALSE, isAndroid7 |-> FALSE],
    [isIE |-> TRUE,  isEdge |-> FALSE, isWin10 |-> TRUE,  isAndroid7 |-> FALSE],
    [isIE |-> FALSE, isEdge |-> TRUE,  isWin10 |-> TRUE,  isAndroid7 |-> FALSE],
    [isIE |-> FALSE, isEdge |-> FALSE, isWin10 |-> FALSE, isAndroid7 |-> TRUE],
    [isIE |-> FALSE, isEdge |-> FALSE, isWin10 |-> FALSE, isAndroid7 |-> FALSE] }

(* --------------------------- host environment ------------------------- *)
\* what global.getSelection() answers when a handler asks: the text of the anchor
\* node and the anchorOffset in it
DomConfigs ==
  { [text |-> EMPTY, offset |-> 0],
    [text |-> SYL \o JAMO, offset |-> 2],
    [text |-> SYL \o JAMO, offset |-> 1],
    [text |-> JAMO \o LATIN, offset |-> 2] }

\* e.which of the key events: Keys.RIGHT (Keys.LEFT takes the same branch) and
\* Keys.RETURN; each is the other key of the handler that does not test for it
WhichKeys == {"RIGHT", "RETURN"}

\* a SelectionState as the handler reads it: anchor and focus offsets
Sel(a, f) == [anchorOffset |-> a, focusOffset |-> f]
\* stands for `undefined` / no selection argument
NoSel == Sel(-1, -1)
isCollapsed(sel) == sel.anchorOffset = sel.focusOffset

NULL == "null"
\* a number variable that may hold null: <<n>> is the number n, << >> is null
Num(n) == <<n>>
NULLNUM == << >>

\* what resolveComposition reads from this.props.editorState and this: the selection,
\* whether it sits at the start of a leaf, the current inline style, the entity key
\* for the selection, and this._previousSelection
EditorState(sel, leaf, style, entity, prev) ==
  [selection |-> sel, leafStart |-> leaf, currentStyle |-> style, entityKey |-> entity,
   previousSelection |-> prev]
EditorStates ==
  { EditorState(c[1], c[2], c[3], c[4], prev) :
      c \in { <<Sel(0, 0), FALSE, {}, NULL>>,
              <<Sel(2, 2), FALSE, {}, NULL>>,
              <<Sel(0, 2), FALSE, {}, NULL>>,
              <<Sel(0, 0), TRUE, {}, NULL>>,
              <<Sel(2, 2), TRUE, {}, NULL>>,
              <<Sel(2, 2), FALSE, {"BOLD"}, NULL>>,
              <<Sel(0, 2), FALSE, {"BOLD"}, NULL>>,
              <<Sel(2, 2), FALSE, {}, "1">> },
      prev \in {NoSel, Sel(1, 1)} }

\* no editor state was read (the last handler did not get into resolveComposition)
NoEditorState == EditorState(NoSel, FALSE, {}, NULL, NoSel)

VARIABLES
  platform,
  resolved, stillComposing, textInputData, formerTextInputData,
  isKoreanOnIE, offsetAtCompositionStart, anchorNodeAtCompositionStart,
  lastKoreanCharacter, nextToLastKoreanCharacter, charInCompStart, charInCompUpdate,
  timers,
  calls, editorState, threw, lastOp,
  everStarted, owedEnds, timerCommits, staleTimers, startCharResolved,
  fallbackScenario,
  codec,
  classifier

session == <<resolved, stillComposing, textInputData, formerTextInputData,
             isKoreanOnIE, offsetAtCompositionStart, anchorNodeAtCompositionStart,
             lastKoreanCharacter, nextToLastKoreanCharacter, charInCompStart,
             charInCompUpdate>>
\* startCharResolved: charInCompStart holds a character and resolveComposition has run
\* since the compositionstart that recorded it
history == <<everStarted, owedEnds, timerCommits, staleTimers, startCharResolved>>
vars == <<platform, session, timers, calls, editorState, threw, lastOp, history,
          fallbackScenario, codec, classifier>>

isIE == platform.isIE
isEdge == platform.isEdge
isWin10 == platform.isWin10
isAndroid7 == platform.isAndroid7

(* ------------------------------ host calls ---------------------------- *)
Call(op, sel, text, style, entity, arg) ==
  [op |-> op, sel |-> sel, text |-> text, style |-> style, entity |-> entity, arg |-> arg]

\* DraftModifier.removeRange(...).getSelectionAfter(): collapsed at the start of the range
selectionAfterRemove(sel) ==
  LET s == IF sel.anchorOffset < sel.focusOffset THEN sel.anchorOffset ELSE sel.focusOffset
  IN  Sel(s, s)

\* mutant: an empty composition alone does not force the reset
mustResetIgnoringEmpty(composedChars, es) ==
  \/ es.leafStart
  \/ Cardinality(es.currentStyle) > 0
  \/ es.entityKey # NULL

\* mutant: an active entity alone does not force the reset
mustResetIgnoringEntity(composedChars, es) ==
  \/ composedChars = EMPTY
  \/ es.leafStart
  \/ Cardinality(es.currentStyle) > 0

\* lines 360-365
mustReset(composedChars, es) ==
  \/ composedChars = EMPTY
  \/ es.leafStart
  \/ Cardinality(es.currentStyle) > 0
  \/ es.entityKey # NULL

\* lines 376-388: the range handed to DraftModifier.removeRange, NoSel when it is not called
toRemoveSel(wasKoreanOnIE, formerComposedChars, es) ==
  IF ~wasKoreanOnIE /\ formerComposedChars # EMPTY /\ isCollapsed(es.selection)
  THEN LET anchorOffset == es.selection.anchorOffset - Len(formerComposedChars)
       IN  Sel(IF anchorOffset < 0 THEN 0 ELSE anchorOffset, es.selection.focusOffset)
  ELSE NoSel

\* line 397: the selection handed to DraftModifier.replaceText
replaceTarget(wasKoreanOnIE, selection, es) ==
  IF wasKoreanOnIE /\ ~isWin10 /\ es.previousSelection # NoSel
  THEN es.previousSelection
  ELSE selection

\* mutant: no return after the pushed update (line 408), so the resync-only update
\* follows it
hostCallsFallingThrough(editorChangeType, composedChars, formerComposedChars, wasKoreanOnIE, es) ==
  LET reset == mustReset(composedChars, es)
      rem == toRemoveSel(wasKoreanOnIE, formerComposedChars, es)
      selection == IF rem = NoSel THEN es.selection ELSE selectionAfterRemove(rem)
  IN  (IF reset
       THEN <<Call("restoreEditorDOM", NoSel, EMPTY, {}, NULL,
                   IF composedChars # EMPTY /\ Len(composedChars) > 0
                   THEN "contentsKey" ELSE "containerKey")>>
       ELSE << >>)
      \o <<Call("exitCurrentMode", NoSel, EMPTY, {}, NULL, ""),
           Call("removeRenderGuard", NoSel, EMPTY, {}, NULL, "")>>
      \o (IF rem # NoSel
          THEN <<Call("removeRange", rem, EMPTY, {}, NULL, "backward")>>
          ELSE << >>)
      \o (IF composedChars # EMPTY
          THEN <<Call("replaceText", replaceTarget(wasKoreanOnIE, selection, es),
                      composedChars, es.currentStyle, es.entityKey, ""),
                 Call("push", NoSel, EMPTY, {}, NULL, editorChangeType),
                 Call("update", rem, composedChars, {}, NULL, "pushed")>>
          ELSE << >>)
      \o (IF reset
          THEN <<Call("update", NoSel, EMPTY, {}, NULL, "resync")>>
          ELSE << >>)

\* lines 367-418: the host calls of one resolveComposition that runs, in order
\* An update call carries in sel the range missing from the content of the editor
\* state it hands over: the pushed state (line 401) is built on the contentState that
\* went through removeRange, the resync-only one (lines 412-417) on editorState itself.
hostCalls(editorChangeType, composedChars, formerComposedChars, wasKoreanOnIE, es) ==
  LET reset == mustReset(composedChars, es)
      rem == toRemoveSel(wasKoreanOnIE, formerComposedChars, es)
      selection == IF rem = NoSel THEN es.selection ELSE selectionAfterRemove(rem)
  IN  (IF reset
       THEN <<Call("restoreEditorDOM", NoSel, EMPTY, {}, NULL,
                   IF composedChars # EMPTY /\ Len(composedChars) > 0
                   THEN "contentsKey" ELSE "containerKey")>>
       ELSE << >>)
      \o <<Call("exitCurrentMode", NoSel, EMPTY, {}, NULL, ""),
           Call("removeRenderGuard", NoSel, EMPTY, {}, NULL, "")>>
      \o (IF rem # NoSel
          THEN <<Call("removeRange", rem, EMPTY, {}, NULL, "backward")>>
          ELSE << >>)
      \o (IF composedChars # EMPTY
          THEN <<Call("replaceText", replaceTarget(wasKoreanOnIE, selection, es),
                      composedChars, es.currentStyle, es.entityKey, ""),
                 Call("push", NoSel, EMPTY, {}, NULL, editorChangeType),
                 Call("update", rem, composedChars, {}, NULL, "pushed")>>
          ELSE IF reset
               THEN <<Call("update", NoSel, EMPTY, {}, NULL, "resync")>>
               ELSE << >>)

\* reading the list of host calls
hasOp(cs, op) == \E k \in 1..Len(cs) : cs[k].op = op
countOp(cs, op) == Cardinality({k \in 1..Len(cs) : cs[k].op = op})
theCall(cs, op) == cs[CHOOSE k \in 1..Len(cs) : cs[k].op = op]
\* resolveComposition ran to its end in the last step (line 371 is on every such path)
resolveRan(cs) == hasOp(cs, "exitCurrentMode")

(* --------------------------- resolveComposition ----------------------- *)
\* mutant: textInputData is not cleared
resolveKeepingBuffer(editorChangeType, composing, buffer, es) ==
  IF composing
  THEN /\ UNCHANGED <<resolved, isKoreanOnIE, lastKoreanCharacter,
                      nextToLastKoreanCharacter, offsetAtCompositionStart,
                      anchorNodeAtCompositionStart, formerTextInputData>>
       /\ textInputData' = buffer
       /\ calls' = << >> /\ editorState' = NoEditorState
  ELSE /\ resolved' = TRUE
       /\ isKoreanOnIE' = FALSE
       /\ lastKoreanCharacter' = EMPTY
       /\ nextToLastKoreanCharacter' = EMPTY
       /\ offsetAtCompositionStart' = NULLNUM
       /\ anchorNodeAtCompositionStart' = NULL
       /\ textInputData' = buffer
       /\ formerTextInputData' = EMPTY
       /\ calls' = hostCalls(editorChangeType, buffer, formerTextInputData,
                             isKoreanOnIE, es)
       /\ editorState' = es

\* mutant: formerTextInputData is not cleared
resolveKeepingFormer(editorChangeType, composing, buffer, es) ==
  IF composing
  THEN /\ UNCHANGED <<resolved, isKoreanOnIE, lastKoreanCharacter,
                      nextToLastKoreanCharacter, offsetAtCompositionStart,
                      anchorNodeAtCompositionStart, formerTextInputData>>
       /\ textInputData' = buffer
       /\ calls' = << >> /\ editorState' = NoEditorState
  ELSE /\ resolved' = TRUE
       /\ isKoreanOnIE' = FALSE
       /\ lastKoreanCharacter' = EMPTY
       /\ nextToLastKoreanCharacter' = EMPTY
       /\ offsetAtCompositionStart' = NULLNUM
       /\ anchorNodeAtCompositionStart' = NULL
       /\ textInputData' = EMPTY
       /\ formerTextInputData' = formerTextInputData
       /\ calls' = hostCalls(editorChangeType, buffer, formerTextInputData,
                             isKoreanOnIE, es)
       /\ editorState' = es

\* mutant: returns early, as for a running composition, when nothing was composed
resolveSkippingEmpty(editorChangeType, composing, buffer, es) ==
  IF composing \/ buffer = EMPTY
  THEN /\ UNCHANGED <<resolved, isKoreanOnIE, lastKoreanCharacter,
                      nextToLastKoreanCharacter, offsetAtCompositionStart,
                      anchorNodeAtCompositionStart, formerTextInputData>>
       /\ textInputData' = buffer
       /\ calls' = << >> /\ editorState' = NoEditorState
  ELSE /\ resolved' = TRUE
       /\ isKoreanOnIE' = FALSE
       /\ lastKoreanCharacter' = EMPTY
       /\ nextToLastKoreanCharacter' = EMPTY
       /\ offsetAtCompositionStart' = NULLNUM
       /\ anchorNodeAtCompositionStart' = NULL
       /\ textInputData' = EMPTY
       /\ formerTextInputData' = EMPTY
       /\ calls' = hostCalls(editorChangeType, buffer, formerTextInputData,
                             isKoreanOnIE, es)
       /\ editorState' = es

\* mutant: no early return while a composition is running
resolveWhileComposing(editorChangeType, composing, buffer, es) ==
  /\ resolved' = TRUE
  /\ isKoreanOnIE' = FALSE
  /\ lastKoreanCharacter' = EMPTY
  /\ nextToLastKoreanCharacter' = EMPTY
  /\ offsetAtCompositionStart' = NULLNUM
  /\ anchorNodeAtCompositionStart' = NULL
  /\ textInputData' = EMPTY
  /\ formerTextInputData' = EMPTY
  /\ calls' = hostCalls(editorChangeType, buffer, formerTextInputData,
                        isKoreanOnIE, es)
  /\ editorState' = es

\* lines 329-419.  composing and buffer are stillComposing and textInputData as the
\* caller left them (onBlur assigns both before the call).
resolveComposition(editorChangeType, composing, buffer, es) ==
  IF composing
  THEN /\ UNCHANGED <<resolved, isKoreanOnIE, lastKoreanCharacter,
                      nextToLastKoreanCharacter, offsetAtCompositionStart,
                      anchorNodeAtCompositionStart, formerTextInputData>>
       /\ textInputData' = buffer
       /\ calls' = << >> /\ editorState' = NoEditorState
  ELSE /\ resolved' = TRUE
       /\ isKoreanOnIE' = FALSE
       /\ lastKoreanCharacter' = EMPTY
       /\ nextToLastKoreanCharacter' = EMPTY
       /\ offsetAtCompositionStart' = NULLNUM
       /\ anchorNodeAtCompositionStart' = NULL
       /\ textInputData' = EMPTY
       /\ formerTextInputData' = EMPTY
       /\ calls' = hostCalls(editorChangeType, buffer, formerTextInputData,
                             isKoreanOnIE, es)
       /\ editorState' = es

inc2(n) == IF n < 2 THEN n + 1 ELSE n

\* How far the event sequence compositionstart(c), compositionupdate(c),
\* compositionend(''), timer callback has got on IE, from a handler at rest; any other
\* event starts over.
NoScenario == [step |-> 0, c |-> EMPTY]
atRest ==
  /\ ~stillComposing /\ textInputData = EMPTY /\ ~isKoreanOnIE
  /\ lastKoreanCharacter = EMPTY /\ nextToLastKoreanCharacter = EMPTY
  /\ timers = 0
scenarioStep(n, ok) ==
  IF fallbackScenario.step = n - 1 /\ ok
  THEN [fallbackScenario EXCEPT !.step = n]
  ELSE NoScenario

(* ------------------------------ handlers ------------------------------ *)
\* mutant: the fragment is appended exactly when isKoreanOnIE is false
onBeforeInputUnlessKoreanOnIE(data) ==
  /\ Len(textInputData) + Len(data) <= MaxBuf
  /\ hasControlChar(data) => isKoreanOnIE
  /\ textInputData' = IF ~isKoreanOnIE THEN textInputData \o data ELSE textInputData
  /\ calls' = << >> /\ editorState' = NoEditorState /\ threw' = FALSE
  /\ lastOp' = "input"
  /\ fallbackScenario' = NoScenario
  /\ UNCHANGED <<classifier, codec, platform, resolved, stillComposing, formerTextInputData, isKoreanOnIE,
                 offsetAtCompositionStart, anchorNodeAtCompositionStart,
                 lastKoreanCharacter, nextToLastKoreanCharacter, charInCompStart,
                 charInCompUpdate, timers, history>>

\* lines 154-167
onBeforeInput(data) ==
  /\ Len(textInputData) + Len(data) <= MaxBuf
  /\ hasControlChar(data) => isKoreanOnIE
  /\ textInputData' =
       IF lastKoreanCharacter = EMPTY /\ ~(isKoreanOnIE /\ hasControlChar(data))
       THEN IF isEdge /\ Len(data) > 1 /\ isKorean(charAt(data, 0))
            THEN textInputData \o charAt(data, 0)
            ELSE textInputData \o data
       ELSE textInputData
  /\ calls' = << >> /\ editorState' = NoEditorState /\ threw' = FALSE
  /\ lastOp' = "input"
  /\ fallbackScenario' = NoScenario
  /\ UNCHANGED <<classifier, codec, platform, resolved, stillComposing, formerTextInputData, isKoreanOnIE,
                 offsetAtCompositionStart, anchorNodeAtCompositionStart,
                 lastKoreanCharacter, nextToLastKoreanCharacter, charInCompStart,
                 charInCompUpdate, timers, history>>

\* mutant: the retained character is appended, the last character is not dropped
onCompositionStartAppending(data, dom) ==
  LET fallback == isIE /\ Len(data) = 1 /\ ~isKorean(charAt(data, 0))
      nextToLast == IF fallback THEN EMPTY ELSE nextToLastKoreanCharacter
  IN  /\ formerTextInputData' = data
      /\ stillComposing' = TRUE
      /\ resolved' = FALSE
      /\ charInCompUpdate' = EMPTY
      /\ IF isIE
         THEN /\ offsetAtCompositionStart' = Num(dom.offset - 1)
              /\ anchorNodeAtCompositionStart' = "node"
         ELSE UNCHANGED <<offsetAtCompositionStart, anchorNodeAtCompositionStart>>
      /\ charInCompStart' = IF fallback THEN data ELSE charInCompStart
      /\ textInputData' = textInputData \o nextToLast
      /\ nextToLastKoreanCharacter' = EMPTY
      /\ calls' = << >> /\ editorState' = NoEditorState /\ threw' = FALSE
      /\ lastOp' = "onCompositionStart"
      /\ fallbackScenario' =
           IF isIE /\ atRest /\ Len(data) = 1 /\ isKorean(data)
           THEN [step |-> 1, c |-> data]
           ELSE NoScenario
      /\ everStarted' = TRUE
      /\ staleTimers' = timers
      /\ startCharResolved' = IF fallback THEN FALSE ELSE startCharResolved
      /\ owedEnds' = 0 /\ timerCommits' = 0
      /\ UNCHANGED <<classifier, codec, platform, isKoreanOnIE, lastKoreanCharacter, timers>>

\* lines 173-201
onCompositionStart(data, dom) ==
  LET fallback == isIE /\ Len(data) = 1 /\ ~isKorean(charAt(data, 0))
      nextToLast == IF fallback THEN EMPTY ELSE nextToLastKoreanCharacter
  IN  /\ formerTextInputData' = data
      /\ stillComposing' = TRUE
      /\ resolved' = FALSE
      /\ charInCompUpdate' = EMPTY
      /\ IF isIE
         THEN /\ offsetAtCompositionStart' = Num(dom.offset - 1)
              /\ anchorNodeAtCompositionStart' = "node"
         ELSE UNCHANGED <<offsetAtCompositionStart, anchorNodeAtCompositionStart>>
      /\ charInCompStart' = IF fallback THEN data ELSE charInCompStart
      /\ textInputData' =
           IF nextToLast # EMPTY
           THEN substring0(textInputData, Len(textInputData) - 1) \o nextToLast
           ELSE textInputData
      /\ nextToLastKoreanCharacter' = EMPTY
      /\ calls' = << >> /\ editorState' = NoEditorState /\ threw' = FALSE
      /\ lastOp' = "onCompositionStart"
      /\ fallbackScenario' =
           IF isIE /\ atRest /\ Len(data) = 1 /\ isKorean(data)
           THEN [step |-> 1, c |-> data]
           ELSE NoScenario
      /\ everStarted' = TRUE
      /\ staleTimers' = timers
      /\ startCharResolved' = IF fallback THEN FALSE ELSE startCharResolved
      /\ owedEnds' = 0 /\ timerCommits' = 0
      /\ UNCHANGED <<classifier, codec, platform, isKoreanOnIE, lastKoreanCharacter, timers>>

\* lines 203-212
onCompositionUpdate(data) ==
  /\ IF data # EMPTY /\ isKorean(charAt(data, 0))
     THEN charInCompUpdate' = data /\ isKoreanOnIE' = isIE
     ELSE UNCHANGED <<charInCompUpdate, isKoreanOnIE>>
  /\ calls' = << >> /\ editorState' = NoEditorState /\ threw' = FALSE
  /\ lastOp' = "input"
  /\ fallbackScenario' = scenarioStep(2, data = fallbackScenario.c)
  /\ UNCHANGED <<classifier, codec, platform, resolved, stillComposing, textInputData, formerTextInputData,
                 offsetAtCompositionStart, anchorNodeAtCompositionStart,
                 lastKoreanCharacter, nextToLastKoreanCharacter, charInCompStart,
                 timers, history>>

\* mutant: the fallback character is appended only when isKoreanOnIE already holds
onCompositionEndIfKoreanOnIE(data, dom) ==
  LET noData == isIE /\ data = EMPTY /\ isKoreanOnIE
      buffer1 == IF noData
                 THEN textInputData \o (IF charInCompStart # EMPTY
                                        THEN charInCompStart ELSE charInCompUpdate)
                 ELSE textInputData
      korean1 == IF noData THEN TRUE ELSE isKoreanOnIE
      recover == isIE /\ data # EMPTY /\ isKorean(charAt(data, 0))
      typeError == recover /\ anchorNodeAtCompositionStart = NULL
      content == dom.text
      i == IF charInCompUpdate = EMPTY
           THEN dom.offset - 1
           ELSE offsetAtCompositionStart[1]
      found == recover /\ ~typeError /\ isKorean(charAt(content, i))
      buffer2 == IF found THEN buffer1 \o charAt(content, i) ELSE buffer1
      korean2 == IF found THEN TRUE ELSE korean1
      buffer3 == IF isAndroid7 /\ data # EMPTY /\ buffer2 = EMPTY THEN data ELSE buffer2
  IN  /\ stillComposing' = FALSE
      /\ lastOp' = "onCompositionEnd"
      /\ fallbackScenario' = scenarioStep(3, data = EMPTY)
      /\ editorState' = NoEditorState
      /\ threw' = typeError
      /\ IF typeError
         THEN /\ lastKoreanCharacter' = EMPTY
              /\ nextToLastKoreanCharacter' = EMPTY
              /\ calls' = << >>
              /\ UNCHANGED <<textInputData, isKoreanOnIE, charInCompStart,
                             charInCompUpdate, timers, owedEnds>>
         ELSE /\ Len(buffer3) <= MaxBuf
              /\ timers < MaxTimers
              /\ lastKoreanCharacter' = IF found THEN charAt(content, i) ELSE EMPTY
              /\ nextToLastKoreanCharacter' = IF found THEN charAt(content, i - 1) ELSE EMPTY
              /\ textInputData' = buffer3
              /\ isKoreanOnIE' = korean2
              /\ charInCompStart' = EMPTY
              /\ charInCompUpdate' = EMPTY
              /\ timers' = timers + 1
              /\ calls' = <<Call("setTimeout", NoSel, EMPTY, {}, NULL,
                                  ToString(IF korean2 THEN 0 ELSE RESOLVE_DELAY))>>
              /\ owedEnds' = IF owedEnds > 0 \/ (~resolved /\ buffer3 # EMPTY)
                              THEN inc2(owedEnds) ELSE 0
      /\ UNCHANGED <<classifier, codec, platform, resolved, formerTextInputData, offsetAtCompositionStart,
                     anchorNodeAtCompositionStart, everStarted, timerCommits, staleTimers>>
      /\ startCharResolved' = IF typeError THEN startCharResolved ELSE FALSE

\* lines 228-273.  Reading .textContent of a null anchorNodeAtCompositionStart (line 244)
\* throws a TypeError: the handler stops there and no timer is armed.
onCompositionEnd(data, dom) ==
  LET noData == isIE /\ data = EMPTY
      buffer1 == IF noData
                 THEN textInputData \o (IF charInCompStart # EMPTY
                                        THEN charInCompStart ELSE charInCompUpdate)
                 ELSE textInputData
      korean1 == IF noData THEN TRUE ELSE isKoreanOnIE
      recover == isIE /\ data # EMPTY /\ isKorean(charAt(data, 0))
      typeError == recover /\ anchorNodeAtCompositionStart = NULL
      content == dom.text
      i == IF charInCompUpdate = EMPTY
           THEN dom.offset - 1
           ELSE offsetAtCompositionStart[1]
      found == recover /\ ~typeError /\ isKorean(charAt(content, i))
      buffer2 == IF found THEN buffer1 \o charAt(content, i) ELSE buffer1
      korean2 == IF found THEN TRUE ELSE korean1
      buffer3 == IF isAndroid7 /\ data # EMPTY /\ buffer2 = EMPTY THEN data ELSE buffer2
  IN  /\ stillComposing' = FALSE
      /\ lastOp' = "onCompositionEnd"
      /\ fallbackScenario' = scenarioStep(3, data = EMPTY)
      /\ editorState' = NoEditorState
      /\ threw' = typeError
      /\ IF typeError
         THEN /\ lastKoreanCharacter' = EMPTY
              /\ nextToLastKoreanCharacter' = EMPTY
              /\ calls' = << >>
              /\ UNCHANGED <<textInputData, isKoreanOnIE, charInCompStart,
                             charInCompUpdate, timers, owedEnds>>
         ELSE /\ Len(buffer3) <= MaxBuf
              /\ timers < MaxTimers
              /\ lastKoreanCharacter' = IF found THEN charAt(content, i) ELSE EMPTY
              /\ nextToLastKoreanCharacter' = IF found THEN charAt(content, i - 1) ELSE EMPTY
              /\ textInputData' = buffer3
              /\ isKoreanOnIE' = korean2
              /\ charInCompStart' = EMPTY
              /\ charInCompUpdate' = EMPTY
              /\ timers' = timers + 1
              /\ calls' = <<Call("setTimeout", NoSel, EMPTY, {}, NULL,
                                  ToString(IF korean2 THEN 0 ELSE RESOLVE_DELAY))>>
              /\ owedEnds' = IF owedEnds > 0 \/ (~resolved /\ buffer3 # EMPTY)
                              THEN inc2(owedEnds) ELSE 0
      /\ UNCHANGED <<classifier, codec, platform, resolved, formerTextInputData, offsetAtCompositionStart,
                     anchorNodeAtCompositionStart, everStarted, timerCommits, staleTimers>>
      /\ startCharResolved' = IF typeError THEN startCharResolved ELSE FALSE

\* mutant: a key press while isKoreanOnIE holds keeps nextToLastKoreanCharacter
onKeyDownKeepingNextToLast(which) ==
  /\ which \in WhichKeys
  /\ IF isKoreanOnIE
     THEN /\ lastKoreanCharacter' = EMPTY
          /\ charInCompUpdate' = EMPTY
     ELSE UNCHANGED <<lastKoreanCharacter, charInCompUpdate>>
  /\ calls' = << >> /\ editorState' = NoEditorState /\ threw' = FALSE
  /\ lastOp' = "input"
  /\ fallbackScenario' = NoScenario
  /\ UNCHANGED <<classifier, codec, platform, resolved, stillComposing, textInputData, formerTextInputData,
                 isKoreanOnIE, offsetAtCompositionStart, anchorNodeAtCompositionStart,
                 nextToLastKoreanCharacter, charInCompStart, timers, history>>

\* mutant: a key press while isKoreanOnIE holds also clears isKoreanOnIE
onKeyDownClearingKoreanOnIE(which) ==
  /\ which \in WhichKeys
  /\ IF isKoreanOnIE
     THEN /\ lastKoreanCharacter' = EMPTY
          /\ nextToLastKoreanCharacter' = EMPTY
          /\ charInCompUpdate' = EMPTY
     ELSE UNCHANGED <<lastKoreanCharacter, nextToLastKoreanCharacter, charInCompUpdate>>
  /\ isKoreanOnIE' = FALSE
  /\ calls' = << >> /\ editorState' = NoEditorState /\ threw' = FALSE
  /\ lastOp' = "input"
  /\ fallbackScenario' = NoScenario
  /\ UNCHANGED <<classifier, codec, platform, resolved, stillComposing, textInputData, formerTextInputData,
                 offsetAtCompositionStart, anchorNodeAtCompositionStart,
                 charInCompStart, timers, history>>

\* lines 280-289
onKeyDown(which) ==
  /\ which \in WhichKeys
  /\ IF isKoreanOnIE
     THEN /\ lastKoreanCharacter' = EMPTY
          /\ nextToLastKoreanCharacter' = EMPTY
          /\ charInCompUpdate' = EMPTY
     ELSE UNCHANGED <<lastKoreanCharacter, nextToLastKoreanCharacter, charInCompUpdate>>
  /\ calls' = << >> /\ editorState' = NoEditorState /\ threw' = FALSE
  /\ lastOp' = "input"
  /\ fallbackScenario' = NoScenario
  /\ UNCHANGED <<classifier, codec, platform, resolved, stillComposing, textInputData, formerTextInputData,
                 isKoreanOnIE, offsetAtCompositionStart, anchorNodeAtCompositionStart,
                 charInCompStart, timers, history>>

\* lines 297-301
onKeyPress(which) ==
  /\ which \in WhichKeys
  /\ calls' = << >> /\ editorState' = NoEditorState /\ threw' = FALSE
  /\ lastOp' = "input"
  /\ fallbackScenario' = NoScenario
  /\ UNCHANGED <<classifier, codec, platform, session, timers, history>>

\* mutant: the pending update-phase character is not appended
onBlurDroppingUpdate(es) ==
  /\ stillComposing' = FALSE
  /\ resolveComposition("commit-blurred-composition", FALSE, textInputData, es)
  /\ threw' = FALSE
  /\ lastOp' = "onBlur"
  /\ fallbackScenario' = NoScenario
  /\ owedEnds' = 0
  /\ UNCHANGED <<classifier, codec, platform, charInCompStart, charInCompUpdate, timers,
                 everStarted, timerCommits, staleTimers>>
  /\ startCharResolved' = (charInCompStart # EMPTY)

\* mutant: the blur commit is pushed as 'insert-characters'
onBlurAsInsert(es) ==
  /\ stillComposing' = FALSE
  /\ resolveComposition("insert-characters", FALSE,
                        textInputData \o charInCompUpdate, es)
  /\ threw' = FALSE
  /\ lastOp' = "onBlur"
  /\ fallbackScenario' = NoScenario
  /\ owedEnds' = 0
  /\ UNCHANGED <<classifier, codec, platform, charInCompStart, charInCompUpdate, timers,
                 everStarted, timerCommits, staleTimers>>
  /\ startCharResolved' = (charInCompStart # EMPTY)

\* lines 307-312
onBlur(es) ==
  /\ stillComposing' = FALSE
  /\ resolveComposition("commit-blurred-composition", FALSE,
                        textInputData \o charInCompUpdate, es)
  /\ threw' = FALSE
  /\ lastOp' = "onBlur"
  /\ fallbackScenario' = NoScenario
  /\ owedEnds' = 0
  /\ UNCHANGED <<classifier, codec, platform, charInCompStart, charInCompUpdate, timers,
                 everStarted, timerCommits, staleTimers>>
  /\ startCharResolved' = (charInCompStart # EMPTY)

\* mutant: the callback does not look at `resolved`
FireIgnoringResolved(es) ==
  /\ timers > 0
  /\ timers' = timers - 1
  /\ resolveComposition("insert-characters", stillComposing, textInputData, es)
  /\ threw' = FALSE
  /\ lastOp' = "Fire"
  /\ fallbackScenario' = scenarioStep(4, TRUE)
  /\ timerCommits' = IF hasOp(calls', "push") THEN inc2(timerCommits) ELSE timerCommits
  /\ UNCHANGED <<classifier, codec, platform, stillComposing, charInCompStart, charInCompUpdate,
                 everStarted, owedEnds>>
  /\ staleTimers' = IF staleTimers > 0 THEN staleTimers - 1 ELSE 0
  /\ startCharResolved' = IF resolveRan(calls') THEN charInCompStart # EMPTY
                                                   ELSE startCharResolved

\* lines 268-272: one of the callbacks handed to setTimeout runs (they are all the
\* same closure over the module variables)
Fire(es) ==
  /\ timers > 0
  /\ timers' = timers - 1
  /\ IF ~resolved
     THEN resolveComposition("insert-characters", stillComposing, textInputData, es)
     ELSE /\ UNCHANGED <<resolved, isKoreanOnIE, lastKoreanCharacter,
                         nextToLastKoreanCharacter, offsetAtCompositionStart,
                         anchorNodeAtCompositionStart, textInputData,
                         formerTextInputData>>
          /\ calls' = << >> /\ editorState' = NoEditorState
  /\ threw' = FALSE
  /\ lastOp' = "Fire"
  /\ fallbackScenario' = scenarioStep(4, TRUE)
  /\ timerCommits' = IF hasOp(calls', "push") THEN inc2(timerCommits) ELSE timerCommits
  /\ UNCHANGED <<classifier, codec, platform, stillComposing, charInCompStart, charInCompUpdate,
                 everStarted, owedEnds>>
  /\ staleTimers' = IF staleTimers > 0 THEN staleTimers - 1 ELSE 0
  /\ startCharResolved' = IF resolveRan(calls') THEN charInCompStart # EMPTY
                                                   ELSE startCharResolved


(* ------------------------------ range codec --------------------------- *)
\* A ContentBlock as the codec sees it: its text and, per code unit, the entity key of
\* its character metadata (NULL where there is none).
EntityKeys == {"1", "2"}
TextsOfLen(n) == [1..n -> {LATIN[1], SYL[1]}]
Blocks ==
  UNION {{[text |-> t, entity |-> e] :
            t \in TextsOfLen(n), e \in [1..n -> EntityKeys \cup {NULL}]} : n \in 0..MaxText}

\* DraftStringKey.stringify
stringify(key) == CASE key = "1" -> "_1" [] key = "2" -> "_2"
\* the storage maps handed to encodeEntityRanges: stringified key -> storage key, no two
\* keys sharing a storage key
StorageMaps ==
  {m \in [{stringify(k) : k \in EntityKeys} -> {"0", "1", "2"}] :
     \A a, b \in DOMAIN m : m[a] = m[b] => a = b}
\* Number(string) for the decimal strings of the storage maps
Number(str) == CHOOSE n \in 0..9 : ToString(n) = str

\* String.prototype.slice(a, b) for 0 <= a
slice(text, a, b) == SubSeq(text, a + 1, IF b < Len(text) THEN b ELSE Len(text))

\* ContentBlock.findEntityRanges with the filter of encodeEntityRanges: the maximal runs
\* of code units carrying one same entity key, as <<start, end>> with end exclusive
RECURSIVE runEnd(_, _)
runEnd(entity, i) ==
  IF i < Len(entity) /\ entity[i + 1] = entity[i] THEN runEnd(entity, i + 1) ELSE i
RECURSIVE findRanges(_, _)
findRanges(entity, i) ==
  IF i > Len(entity)
  THEN << >>
  ELSE LET e == runEnd(entity, i)
       IN  (IF entity[i] # NULL THEN << <<i - 1, e>> >> ELSE << >>)
           \o findRanges(entity, e + 1)
findEntityRanges(block) == findRanges(block.entity, 1)

\* encodeEntityRanges.js lines 24-43
encodeEntityRanges(block, storageMap) ==
  LET runs == findEntityRanges(block)
  IN  [k \in 1..Len(runs) |->
         LET start == runs[k][1]
             end == runs[k][2]
             text == block.text
             key == block.entity[start + 1]
         IN  [offset |-> Len(slice(text, 0, start)),
              length |-> Len(slice(text, start, end)),
              key |-> Number(storageMap[stringify(key)])]]

\* a slot of a JavaScript array that was never assigned
UNDEFINED == <<0, 0>>
\* entities[ii] = v: an assignment past the end grows the array, leaving holes
arraySet(arr, ii, v) ==
  [j \in 1..(IF ii + 1 > Len(arr) THEN ii + 1 ELSE Len(arr)) |->
     IF j = ii + 1 THEN v ELSE IF j <= Len(arr) THEN arr[j] ELSE UNDEFINED]
RECURSIVE fillRange(_, _, _, _)
fillRange(entities, ii, end, key) ==
  IF ii < end THEN fillRange(arraySet(entities, ii, key), ii + 1, end, key) ELSE entities
RECURSIVE decodeFrom(_, _, _)
decodeFrom(entities, ranges, k) ==
  IF k > Len(ranges)
  THEN entities
  ELSE LET start == ranges[k].offset
           end == start + ranges[k].length
       IN  decodeFrom(fillRange(entities, start, end, Num(ranges[k].key)), ranges, k + 1)

\* mutant: the range is taken to end one unit later
decodeEntityRangesInclusive(text, ranges) ==
  decodeFrom([i \in 1..Len(text) |-> NULLNUM],
             [k \in 1..Len(ranges) |-> [ranges[k] EXCEPT !.length = @ + 1]], 1)

\* decodeInlineStyleRanges.js lines 63-82
decodeEntityRanges(text, ranges) ==
  decodeFrom([i \in 1..Len(text) |-> NULLNUM], ranges, 1)

\* an Immutable OrderedSet, as the sequence of its members in insertion order
EMPTY_SET == << >>
members(orderedSet) == {orderedSet[k] : k \in 1..Len(orderedSet)}
add(orderedSet, value) ==
  IF value \in members(orderedSet) THEN orderedSet ELSE Append(orderedSet, value)

\* lines 32-37 of decodeInlineStyleRanges: styles[cursor] past the end of the array is
\* undefined, and calling .add on it throws a TypeError that ends the function
RECURSIVE styleFill(_, _, _, _)
styleFill(res, cursor, end, style) ==
  IF res.threw \/ ~(cursor < end)
  THEN res
  ELSE IF cursor >= Len(res.styles)
       THEN [res EXCEPT !.threw = TRUE]
       ELSE styleFill([res EXCEPT !.styles[cursor + 1] = add(@, style)],
                      cursor + 1, end, style)
RECURSIVE styleFrom(_, _, _)
styleFrom(res, ranges, k) ==
  IF res.threw \/ k > Len(ranges)
  THEN res
  ELSE LET cursor == ranges[k].offset
           end == cursor + ranges[k].length
       IN  styleFrom(styleFill(res, cursor, end, ranges[k].style), ranges, k + 1)

\* mutant: a later range replaces the styles of the slots it covers
RECURSIVE styleFromReplacing(_, _, _)
styleFromReplacing(res, ranges, k) ==
  IF k > Len(ranges)
  THEN res
  ELSE styleFromReplacing(
         [res EXCEPT !.styles =
            [j \in 1..Len(res.styles) |->
               IF ranges[k].offset < j /\ j <= ranges[k].offset + ranges[k].length
               THEN <<ranges[k].style>> ELSE res.styles[j]]],
         ranges, k + 1)
decodeInlineStyleRangesReplacing(text, ranges) ==
  styleFromReplacing([threw |-> FALSE, styles |-> [i \in 1..Len(text) |-> EMPTY_SET]],
                     ranges, 1)

\* decodeInlineStyleRanges.js lines 25-41: the array returned, or threw when a
\* TypeError ended the call (styles is then what had been written so far)
decodeInlineStyleRanges(text, ranges) ==
  styleFrom([threw |-> FALSE, styles |-> [i \in 1..Len(text) |-> EMPTY_SET]], ranges, 1)

\* the stored ranges handed to the decoders: one range object carries a style for
\* decodeInlineStyleRanges and a key for decodeEntityRanges; a list of none, one or two
StoredRanges ==
  {[offset |-> o, length |-> l, style |-> p[1], key |-> p[2]] :
     o \in 0..(MaxUnits - 1), l \in 1..MaxUnits, p \in {<<"B", 0>>, <<"I", 1>>}}
StoredRangeLists ==
  {<< >>} \cup {<<r>> : r \in StoredRanges} \cup {<<r, q>> : r, q \in StoredRanges}
StoredTexts == {[i \in 1..n |-> LATIN[1]] : n \in 0..MaxUnits}
inBounds(text, ranges) ==
  \A k \in 1..Len(ranges) : ranges[k].offset + ranges[k].length <= Len(text)

\* the codec at rest, and its steps: a block is encoded for storage, then the stored
\* ranges are decoded against the block's text
NoCodec == [pc |-> "none", block |-> [text |-> EMPTY, entity |-> << >>],
            storageMap |-> << >>, encoded |-> << >>, decoded |-> << >>,
            ranges |-> << >>, styles |-> << >>]
Encode ==
  /\ codec.pc = "block"
  /\ codec' = [codec EXCEPT !.pc = "encoded",
                            !.encoded = encodeEntityRanges(codec.block, codec.storageMap)]
  /\ UNCHANGED <<classifier, platform, session, timers, calls, editorState, threw, lastOp, history,
                 fallbackScenario>>
\* stored ranges are decoded against a text, by either decoder
DecodeEntities ==
  /\ codec.pc = "stored"
  /\ codec' = [codec EXCEPT !.pc = "entities",
                            !.decoded = decodeEntityRanges(codec.block.text, codec.ranges)]
  /\ UNCHANGED <<classifier, platform, session, timers, calls, editorState, threw, lastOp, history,
                 fallbackScenario>>
DecodeStyles ==
  /\ codec.pc = "stored"
  /\ LET res == decodeInlineStyleRanges(codec.block.text, codec.ranges)
     IN  /\ codec' = [codec EXCEPT !.pc = "styles", !.styles = res.styles]
         /\ threw' = res.threw
  /\ UNCHANGED <<classifier, platform, session, timers, calls, editorState, lastOp, history,
                 fallbackScenario>>
Decode ==
  /\ codec.pc = "encoded"
  /\ codec' = [codec EXCEPT !.pc = "decoded",
                            !.decoded = decodeEntityRanges(codec.block.text, codec.encoded)]
  /\ UNCHANGED <<classifier, platform, session, timers, calls, editorState, threw, lastOp, history,
                 fallbackScenario>>

\* the classifiers on their own: a code unit of the Basic Multilingual Plane is given
\* to isKorean (as a one-character string) and to the legacy isKorean (as a char code);
\* a result not yet computed is << >>
CodeUnits == 0..65535
NoClassifier == [code |-> 0, regex |-> << >>, legacy |-> << >>]
TestRegex ==
  /\ classifier.regex = << >>
  /\ classifier' = [classifier EXCEPT !.regex = <<isKorean(<<classifier.code>>)>>]
  /\ UNCHANGED <<codec, platform, session, timers, calls, editorState, threw, lastOp,
                 history, fallbackScenario>>
TestLegacy ==
  /\ classifier.legacy = << >>
  /\ classifier' =
       [classifier EXCEPT !.legacy = <<truthy(isKoreanLegacy(classifier.code))>>]
  /\ UNCHANGED <<codec, platform, session, timers, calls, editorState, threw, lastOp,
                 history, fallbackScenario>>

InitHandler ==
  /\ platform \in Platforms
  /\ resolved = FALSE
  /\ stillComposing = FALSE
  /\ textInputData = EMPTY
  /\ formerTextInputData = EMPTY
  /\ isKoreanOnIE = FALSE
  /\ offsetAtCompositionStart = Num(0)
  /\ anchorNodeAtCompositionStart = NULL
  /\ lastKoreanCharacter = EMPTY
  /\ nextToLastKoreanCharacter = EMPTY
  /\ charInCompStart = EMPTY
  /\ charInCompUpdate = EMPTY
  /\ timers = 0
  /\ calls = << >> /\ editorState = NoEditorState /\ threw = FALSE
  /\ lastOp = "init"
  /\ fallbackScenario = NoScenario
  /\ everStarted = FALSE /\ staleTimers = 0 /\ startCharResolved = FALSE
  /\ owedEnds = 0 /\ timerCommits = 0

Init == InitHandler /\ codec = NoCodec /\ classifier = NoClassifier

\* What a handler finds when it looks: only what the code reads is varied.  The DOM
\* is read on IE alone (lines 181-184 and 244-246), this._previousSelection when
\* isKoreanOnIE holds off Windows 10 (line 397), the editor state by a
\* resolveComposition that gets past its guards (lines 269 and 330).
DomRead == IF isIE THEN DomConfigs ELSE {[text |-> EMPTY, offset |-> 0]}
\* compositionend reads it only on the path of lines 243-256
DomReadAtEnd(data) ==
  IF isIE /\ data # EMPTY /\ isKorean(charAt(data, 0))
  THEN DomConfigs ELSE {[text |-> EMPTY, offset |-> 0]}
EditorStatesRead ==
  {es \in EditorStates : es.previousSelection # NoSel => (isKoreanOnIE /\ ~isWin10)}
EditorStatesFired ==
  IF ~resolved /\ ~stillComposing THEN EditorStatesRead ELSE {NoEditorState}

Next ==
  \/ \E data \in InputData : onBeforeInput(data)
  \/ \E data \in Data, dom \in DomRead : onCompositionStart(data, dom)
  \/ \E data \in Data : onCompositionUpdate(data)
  \/ \E data \in Data : \E dom \in DomReadAtEnd(data) : onCompositionEnd(data, dom)
  \/ \E which \in WhichKeys : onKeyDown(which)
  \/ \E which \in WhichKeys : onKeyPress(which)
  \/ \E es \in EditorStatesRead : onBlur(es)
  \/ \E es \in EditorStatesFired : Fire(es)

Spec == Init /\ [][Next]_vars

\* the codec on its own, over every block and storage map within the bounds
InitCodec ==
  /\ InitHandler
  /\ ~platform.isIE /\ ~platform.isEdge /\ ~platform.isAndroid7
  /\ \E block \in Blocks, storageMap \in StorageMaps :
       codec = [NoCodec EXCEPT !.pc = "block", !.block = block,
                               !.storageMap = storageMap]
  /\ classifier = NoClassifier
NextCodec == Encode \/ Decode
SpecCodec == InitCodec /\ [][NextCodec]_vars

\* the decoders on their own, over every text and every list of stored ranges within
\* the bounds, well-formed or not
InitDecode ==
  /\ InitHandler
  /\ ~platform.isIE /\ ~platform.isEdge /\ ~platform.isAndroid7
  /\ \E text \in StoredTexts, ranges \in StoredRangeLists :
       codec = [NoCodec EXCEPT !.pc = "stored", !.block.text = text, !.ranges = ranges]
  /\ classifier = NoClassifier

InitClassify ==
  /\ InitHandler
  /\ ~platform.isIE /\ ~platform.isEdge /\ ~platform.isAndroid7
  /\ codec = NoCodec
  /\ \E code \in CodeUnits : classifier = [NoClassifier EXCEPT !.code = code]
NextClassify == TestRegex \/ TestLegacy
SpecClassify == InitClassify /\ [][NextClassify]_vars
NextDecode == DecodeEntities \/ DecodeStyles
SpecDecode == InitDecode /\ [][NextDecode]_vars

(* ============================== claims ================================ *)
lastChar(s) == charAt(s, Len(s) - 1)
\* the composed characters an onBlur reaching resolveComposition hands over (line 310)
blurComposed == textInputData \o charInCompUpdate
\* this step is a timer callback that gets past both guards (lines 269 and 330)
FireResolves == lastOp' = "Fire" /\ ~resolved /\ ~stillComposing

\* C1: idempotence of commit.  Count the commits made by timer callbacks since the
\* last compositionstart (timerCommits) and the compositionend events since the session
\* first owed a commit, i.e. since a compositionend left a non-empty buffer with
\* `resolved` false and no blur resolved it (owedEnds).  There is never a second
\* commit, and once two such compositionend events were delivered and every callback
\* has run, there was exactly one.
C1_OneCommitForDuplicateEnds ==
  /\ timerCommits <= 1
  /\ (owedEnds = 2 /\ timers = 0) => timerCommits = 1
C1_Witness ==
  owedEnds = 2 /\ timers = 0 /\ timerCommits = 1 /\ lastOp = "Fire" /\ calls = << >>

\* C2 (as claimed): every timer callback that runs while stillComposing is false and
\* the buffer is non-empty commits the buffer and leaves it empty.
C2_Original ==
  [][(lastOp' = "Fire" /\ ~stillComposing /\ textInputData # EMPTY)
       => /\ hasOp(calls', "push")
          /\ theCall(calls', "replaceText").text = textInputData
          /\ textInputData' = EMPTY]_vars
\* C2 (amended): a timer callback that runs while `resolved` is false, stillComposing
\* is false and the buffer is non-empty commits exactly the buffer, as
\* 'insert-characters', and leaves the buffer empty.
C2_FiringCommitsUnlessResolved ==
  [][(FireResolves /\ textInputData # EMPTY)
       => /\ countOp(calls', "push") = 1
          /\ countOp(calls', "replaceText") = 1
          /\ theCall(calls', "replaceText").text = textInputData
          /\ textInputData' = EMPTY]_vars
C2_Witness ==
  /\ lastOp = "Fire" /\ hasOp(calls, "push") /\ textInputData = EMPTY
  /\ theCall(calls, "replaceText").text # EMPTY

C4_Original ==
  \A k \in 1..Len(calls) : calls[k].op = "push" => calls[k].arg = "insert-characters"
\* C4 (amended): a push made from a timer callback uses 'insert-characters', a push
\* made from onBlur uses 'commit-blurred-composition', and nothing else pushes.
C4_ChangeTypeByPath ==
  \A k \in 1..Len(calls) :
    calls[k].op = "push"
      => /\ lastOp \in {"Fire", "onBlur"}
         /\ calls[k].arg = IF lastOp = "onBlur"
                           THEN "commit-blurred-composition"
                           ELSE "insert-characters"
C4_Witness == lastOp = "onBlur" /\ hasOp(calls, "push")

\* C5 (as claimed): on IE, from a handler at rest, compositionstart(c),
\* compositionupdate(c), compositionend('') for a Korean character c sets isKoreanOnIE
\* and arms a zero-delay timer; the callback makes exactly one replaceText, of exactly
\* c, and no removeRange; the replaceText targets the previously recorded selection,
\* not the live one.
C5_Armed ==
  fallbackScenario.step = 3
    => /\ isKoreanOnIE
       /\ countOp(calls, "setTimeout") = 1
       /\ theCall(calls, "setTimeout").arg = "0"
C5_TextIsPayload ==
  fallbackScenario.step = 4
    => /\ countOp(calls, "replaceText") = 1
       /\ theCall(calls, "replaceText").text = fallbackScenario.c
       /\ ~hasOp(calls, "removeRange")
C5_TargetIsCaptured ==
  (fallbackScenario.step = 4 /\ hasOp(calls, "replaceText")
     /\ editorState.previousSelection # NoSel)
    => theCall(calls, "replaceText").sel = editorState.previousSelection
C5_Original == C5_Armed /\ C5_TextIsPayload /\ C5_TargetIsCaptured
\* the sequence ran to its end and the callback committed exactly c at the recorded
\* selection
C5_Witness ==
  /\ fallbackScenario.step = 4 /\ ~isWin10
  /\ countOp(calls, "replaceText") = 1
  /\ theCall(calls, "replaceText").text = fallbackScenario.c
  /\ theCall(calls, "replaceText").sel = editorState.previousSelection
  /\ editorState.selection # editorState.previousSelection

C7_EmptyCompositionResyncs ==
  [][((FireResolves /\ textInputData = EMPTY) \/ (lastOp' = "onBlur" /\ blurComposed = EMPTY))
       => /\ countOp(calls', "replaceText") = 0
          /\ countOp(calls', "push") = 0
          /\ countOp(calls', "update") = 1
          /\ theCall(calls', "update").arg = "resync"]_vars
C7_Witness ==
  /\ lastOp = "Fire" /\ hasOp(calls, "removeRange") /\ ~hasOp(calls, "replaceText")
  /\ countOp(calls, "update") = 1

\* C8: right after every resolveComposition that ran, the buffer and the former buffer
\* are empty, isKoreanOnIE is false, the last and next-to-last Korean characters are
\* empty and the selection captured at compositionstart is cleared.
C8_ResetAfterResolution ==
  resolveRan(calls)
    => /\ textInputData = EMPTY /\ formerTextInputData = EMPTY
       /\ ~isKoreanOnIE
       /\ lastKoreanCharacter = EMPTY /\ nextToLastKoreanCharacter = EMPTY
       /\ offsetAtCompositionStart = NULLNUM /\ anchorNodeAtCompositionStart = NULL
C8_Witness ==
  resolveRan(calls) /\ hasOp(calls, "push") /\ hasOp(calls, "removeRange") /\ isIE

\* C9 (as claimed): while no compositionstart was ever handled, resolveComposition
\* makes no host call.
C9_Original == ~everStarted => ~resolveRan(calls)
\* C9 (amended): a resolve invoked before any compositionstart runs like any other:
\* no error is raised and the host calls are made (the resync-only update when
\* nothing was buffered).
C9_ResolveBeforeAnyStart ==
  [][(~everStarted'
        /\ (FireResolves \/ lastOp' = "onBlur"))
       => /\ resolveRan(calls') /\ ~threw'
          /\ (textInputData = EMPTY /\ (lastOp' = "onBlur" => charInCompUpdate = EMPTY))
               => theCall(calls', "update").arg = "resync"]_vars
C9_Witness == ~everStarted /\ lastOp = "Fire" /\ resolveRan(calls)
\* C10: decoding what encodeEntityRanges produced for a block, against the block's
\* text, gives back the block's per-unit entities slot for slot: null where the unit
\* has no entity, and elsewhere the storage key the storage map gives the unit's
\* entity key.
C10_RoundTrip ==
  codec.pc = "decoded"
    => /\ Len(codec.decoded) = Len(codec.block.text)
       /\ \A i \in 1..Len(codec.block.text) :
            codec.decoded[i] =
              IF codec.block.entity[i] = NULL
              THEN NULLNUM
              ELSE Num(Number(codec.storageMap[stringify(codec.block.entity[i])]))
C10_Witness ==
  /\ codec.pc = "decoded" /\ Len(codec.encoded) = 2 /\ Len(codec.block.text) = 3
  /\ codec.block.entity[1] = "2" /\ codec.block.entity[2] = "1"
  /\ codec.block.entity[3] = NULL
  /\ codec.decoded = <<Num(Number(codec.storageMap["_2"])),
                       Num(Number(codec.storageMap["_1"])), NULLNUM>>
\* C11 (as claimed): a decoder given a range with offset + length beyond the text
\* rejects it with an error, and an array a decoder returns has exactly one slot per
\* code unit of the text.
C11_Original ==
  /\ (codec.pc \in {"entities", "styles"} /\ ~inBounds(codec.block.text, codec.ranges))
       => threw
  /\ (codec.pc = "entities" /\ ~threw)
       => Len(codec.decoded) = Len(codec.block.text)
  /\ (codec.pc = "styles" /\ ~threw)
       => Len(codec.styles) = Len(codec.block.text)
\* decodeEntityRanges returned, without an error, an array longer than the text
C11_Witness ==
  /\ codec.pc = "entities" /\ ~threw
  /\ ~inBounds(codec.block.text, codec.ranges)
  /\ Len(codec.decoded) > Len(codec.block.text)
\* what does hold: decodeInlineStyleRanges throws on every out-of-bounds range, and
\* what it returns has one slot per code unit
C11_StylesRejected ==
  codec.pc = "styles"
    => /\ threw <=> ~inBounds(codec.block.text, codec.ranges)
       /\ Len(codec.styles) = Len(codec.block.text)
\* C12: for in-bounds ranges decodeInlineStyleRanges returns, without an error, one
\* slot per code unit whose members are exactly the styles of the ranges covering that
\* unit, each once; handing the ranges over in the opposite order gives the same sets;
\* no ranges give all-empty slots.
covering(ranges, i) ==
  {ranges[k].style : k \in {j \in 1..Len(ranges) :
                               ranges[j].offset <= i /\ i < ranges[j].offset + ranges[j].length}}
reversed(ranges) == [k \in 1..Len(ranges) |-> ranges[Len(ranges) + 1 - k]]
C12_StyleUnion ==
  (codec.pc = "styles" /\ inBounds(codec.block.text, codec.ranges))
    => /\ ~threw
       /\ Len(codec.styles) = Len(codec.block.text)
       /\ \A i \in 1..Len(codec.styles) :
            /\ members(codec.styles[i]) = covering(codec.ranges, i - 1)
            /\ Len(codec.styles[i]) = Cardinality(members(codec.styles[i]))
            /\ members(decodeInlineStyleRanges(codec.block.text,
                                               reversed(codec.ranges)).styles[i])
                 = members(codec.styles[i])
            /\ codec.ranges = << >> => codec.styles[i] = EMPTY_SET
C12_Witness ==
  /\ codec.pc = "styles" /\ Len(codec.block.text) = 4
  /\ codec.ranges = <<[offset |-> 0, length |-> 3, style |-> "B", key |-> 0],
                      [offset |-> 1, length |-> 3, style |-> "I", key |-> 1]>>
  /\ codec.styles = << <<"B">>, <<"B", "I">>, <<"B", "I">>, <<"I">> >>
C14_Original ==
  [][(lastOp' = "Fire" /\ staleTimers > 0)
       => (calls' = << >> /\ session' = session)]_vars
\* C14 (amended): such a callback makes no host call and changes no session variable
\* when the composition is still running or `resolved` is true; once a later
\* compositionend has been handled (stillComposing false, resolved false) it resolves
\* like any other.  Nothing is pushed except by onBlur or by a callback that runs while
\* stillComposing is false.
C14_ContinuationEdge ==
  [][/\ (lastOp' = "Fire" /\ staleTimers > 0)
          => IF stillComposing \/ resolved
             THEN calls' = << >> /\ session' = session
             ELSE resolveRan(calls') /\ textInputData' = EMPTY
     /\ hasOp(calls', "push")
          => (lastOp' = "onBlur" \/ (lastOp' = "Fire" /\ ~stillComposing))]_vars
C14_Witness ==
  /\ lastOp = "Fire" /\ staleTimers = 1 /\ stillComposing /\ ~resolved
  /\ textInputData # EMPTY /\ calls = << >>
\* this step runs resolveComposition to its end: a timer callback past both guards, or
\* onBlur (which clears stillComposing first, line 309)
Resolves == FireResolves \/ lastOp' = "onBlur"
\* the composedChars of that resolveComposition (line 344)
composedAt == IF lastOp' = "onBlur" THEN blurComposed ELSE textInputData

\* C15: every resolveComposition that runs calls replaceText at most once and makes
\* exactly one update.  With composed characters it is the pushed one: one replaceText
\* carrying those characters with the inline style and entity read from the editor
\* state before any removal, and one push.  With none it is the resync-only one, with
\* neither replaceText nor push.
C15_CommitXorResync ==
  [][Resolves
       => /\ countOp(calls', "replaceText") <= 1
          /\ countOp(calls', "update") = 1
          /\ IF composedAt # EMPTY
             THEN /\ theCall(calls', "update").arg = "pushed"
                  /\ theCall(calls', "update").text = composedAt
                  /\ countOp(calls', "push") = 1
                  /\ countOp(calls', "replaceText") = 1
                  /\ theCall(calls', "replaceText").text = composedAt
                  /\ theCall(calls', "replaceText").style = editorState'.currentStyle
                  /\ theCall(calls', "replaceText").entity = editorState'.entityKey
             ELSE /\ theCall(calls', "update").arg = "resync"
                  /\ countOp(calls', "push") = 0
                  /\ countOp(calls', "replaceText") = 0]_vars
C15_Witness ==
  /\ resolveRan(calls) /\ hasOp(calls, "restoreEditorDOM") /\ hasOp(calls, "removeRange")
  /\ hasOp(calls, "push") /\ countOp(calls, "update") = 1
  /\ editorState.currentStyle # {}
\* C16: a resolveComposition that runs calls restoreEditorDOM exactly when nothing was
\* composed, or the selection is at the start of a leaf, or the current inline style is
\* non-empty, or the selection has an entity key.  It then calls it once, as its first
\* host call (so before removeRange and replaceText), with "contentsKey" when
\* characters were composed and "containerKey" when none were.
C16_ResetIffMustReset ==
  [][Resolves
       => /\ hasOp(calls', "restoreEditorDOM")
               <=> \/ composedAt = EMPTY
                   \/ editorState'.leafStart
                   \/ editorState'.currentStyle # {}
                   \/ editorState'.entityKey # NULL
          /\ hasOp(calls', "restoreEditorDOM")
               => /\ countOp(calls', "restoreEditorDOM") = 1
                  /\ calls'[1].op = "restoreEditorDOM"
                  /\ calls'[1].arg = IF composedAt # EMPTY THEN "contentsKey"
                                                          ELSE "containerKey"]_vars
C16_Witness ==
  /\ resolveRan(calls) /\ hasOp(calls, "restoreEditorDOM")
  /\ hasOp(calls, "removeRange") /\ hasOp(calls, "replaceText")
  /\ editorState.entityKey # NULL /\ ~editorState.leafStart
  /\ theCall(calls, "restoreEditorDOM").arg = "contentsKey"
\* the three conditions of line 376 in the step that resolves
removalDue ==
  ~isKoreanOnIE /\ formerTextInputData # EMPTY /\ isCollapsed(editorState'.selection)
\* the range [max(0, anchor - length of the former composed characters), anchor]
removalSpan ==
  LET a == editorState'.selection.anchorOffset - Len(formerTextInputData)
  IN  Sel(IF a < 0 THEN 0 ELSE a, editorState'.selection.anchorOffset)

\* C17 (as claimed): in a resolveComposition that runs with isKoreanOnIE false, former
\* composed characters and a collapsed selection, the editor state handed to update
\* lacks the range [max(0, anchor - length), anchor], whether or not characters were
\* composed; when one of the three conditions fails removeRange is not called.
C17_Original ==
  [][Resolves
       => IF removalDue
          THEN /\ hasOp(calls', "update")
               /\ theCall(calls', "update").sel = removalSpan
          ELSE ~hasOp(calls', "removeRange")]_vars
\* what the code does: removeRange is called exactly under the three conditions, on
\* that range, and its result reaches update only when characters were composed
C17_RemovalReachesPushOnly ==
  [][Resolves
       => /\ hasOp(calls', "removeRange") <=> removalDue
          /\ removalDue
               => /\ countOp(calls', "removeRange") = 1
                  /\ theCall(calls', "removeRange").sel = removalSpan
                  /\ theCall(calls', "update").sel =
                       IF composedAt # EMPTY THEN removalSpan ELSE NoSel]_vars
C17_Witness ==
  /\ resolveRan(calls) /\ hasOp(calls, "removeRange")
  /\ theCall(calls, "removeRange").sel = Sel(1, 2)
  /\ theCall(calls, "update").arg = "resync" /\ theCall(calls, "update").sel = NoSel
\* what a textInput event that is not ignored appends (lines 158-165): on Edge only the
\* first character of a fragment of several characters that begins with a Korean one
appended(data) ==
  IF isEdge /\ Len(data) > 1 /\ isKorean(charAt(data, 0)) THEN charAt(data, 0) ELSE data

KoreanUpdate ==
  /\ lastOp' = "input"
  /\ \E data \in Data : data # EMPTY /\ isKorean(charAt(data, 0)) /\ onCompositionUpdate(data)

\* C19: on IE a compositionupdate whose data begins with a Korean character sets
\* isKoreanOnIE.  Once true (set there or by compositionend), isKoreanOnIE stays true
\* through every step that is not a resolveComposition that runs: textInput,
\* compositionstart, compositionupdate, compositionend, keydown, keypress and timer
\* callbacks that return early.  The resolveComposition that then runs reads it as
\* true: it makes no removeRange, and off Windows 10 it replaces at
\* this._previousSelection when that is set.
C19_KoreanOnIEUntilResolve ==
  [][/\ (isIE /\ KoreanUpdate) => isKoreanOnIE'
     /\ (isKoreanOnIE /\ ~Resolves) => isKoreanOnIE'
     /\ (isKoreanOnIE /\ Resolves)
          => /\ ~hasOp(calls', "removeRange")
             /\ (hasOp(calls', "replaceText") /\ ~isWin10
                   /\ editorState'.previousSelection # NoSel)
                  => theCall(calls', "replaceText").sel = editorState'.previousSelection]_vars
C19_Witness ==
  /\ lastOp = "onBlur" /\ isIE /\ ~isWin10 /\ hasOp(calls, "replaceText")
  /\ ~everStarted /\ timers = 0
  /\ editorState.previousSelection = Sel(1, 1) /\ editorState.selection = Sel(2, 2)
  /\ theCall(calls, "replaceText").sel = Sel(1, 1)
  /\ theCall(calls, "replaceText").text = LATIN \o JAMO
\* this step is a compositionend without data
EndWithoutData ==
  /\ lastOp' = "onCompositionEnd"
  /\ \E dom \in DomReadAtEnd(EMPTY) : onCompositionEnd(EMPTY, dom)
\* the character remembered for it (line 239)
fallbackChar == IF charInCompStart # EMPTY THEN charInCompStart ELSE charInCompUpdate

\* C20 (as claimed): a compositionend without data appends the remembered character
\* when isKoreanOnIE already holds; when it does not, textInputData is left unchanged
\* and isKoreanOnIE stays false.
C20_Original ==
  [][EndWithoutData
       => IF isKoreanOnIE
          THEN textInputData' = textInputData \o fallbackChar
          ELSE textInputData' = textInputData /\ ~isKoreanOnIE']_vars
\* C20 (amended): on IE a compositionend without data appends the character remembered
\* at compositionstart, or else the one remembered at compositionupdate, whether or not
\* isKoreanOnIE holds, and sets isKoreanOnIE.  On the other platforms it leaves
\* textInputData and isKoreanOnIE unchanged.
C20_FallbackOnIE ==
  [][EndWithoutData
       => IF isIE
          THEN textInputData' = textInputData \o fallbackChar /\ isKoreanOnIE'
          ELSE textInputData' = textInputData /\ isKoreanOnIE' = isKoreanOnIE]_vars
C20_Witness ==
  /\ lastOp = "onCompositionEnd" /\ isIE /\ isKoreanOnIE
  /\ textInputData = LATIN /\ formerTextInputData = LATIN
  /\ timers = 1 /\ staleTimers = 0 /\ ~resolved
  /\ theCall(calls, "setTimeout").arg = "0"
\* C26 (as claimed): on every code unit of the Basic Multilingual Plane the regular
\* expression of isKorean.js and the range table of the legacy handler give the same
\* truth value.
C26_Original ==
  (classifier.regex # << >> /\ classifier.legacy # << >>)
    => (classifier.regex[1] <=> classifier.legacy[1])
\* what the two classifiers do: they differ exactly on U+D7A4..U+D7AF, which the regular
\* expression accepts (its range runs to D7AF) and the table rejects (its range ends at
\* D7A3)
C26_DifferOnD7A4ToD7AF ==
  (classifier.regex # << >> /\ classifier.legacy # << >>)
    => ((classifier.regex[1] # classifier.legacy[1])
          <=> classifier.code \in 55204..55215)
C26_Witness ==
  /\ classifier.code = 55204
  /\ classifier.regex = <<TRUE>> /\ classifier.legacy = <<FALSE>>
\* the backward scan of the legacy handler (DraftEditorCompositionHandler.js lines
\* 148-158): the index of the nearest Korean character at or before i, or -1
scanBackward(content, i) ==
  LET hits == {k \in 0..i : isKorean(charAt(content, k))}
  IN  IF hits = {} THEN -1 ELSE CHOOSE k \in hits : \A j \in hits : j <= k
\* the index compositionend starts from (lines 244-249): the one captured at
\* compositionstart when an update character is pending, else the live one
scanFrom(dom) ==
  IF charInCompUpdate = EMPTY THEN dom.offset - 1 ELSE offsetAtCompositionStart[1]
\* this step is a compositionend on IE whose data begins with a Korean character, with
\* the DOM as given
RecoveringEnd(data, dom) ==
  /\ lastOp' = "onCompositionEnd"
  /\ isIE /\ data # EMPTY /\ isKorean(charAt(data, 0))
  /\ onCompositionEnd(data, dom)

\* C21 (as claimed): a compositionend on IE whose data begins with a Korean character
\* raises no error; when the text holds a Korean character at or before the index it
\* starts from, the nearest one becomes lastKoreanCharacter, the character before it
\* nextToLastKoreanCharacter, and it is appended to textInputData; when there is none,
\* textInputData is unchanged and both characters are empty.
C21_Original ==
  [][\A data \in Data, dom \in DomConfigs :
       RecoveringEnd(data, dom)
         => LET k == scanBackward(dom.text, scanFrom(dom))
            IN  /\ ~threw'
                /\ IF k >= 0
                   THEN /\ lastKoreanCharacter' = charAt(dom.text, k)
                        /\ nextToLastKoreanCharacter' = charAt(dom.text, k - 1)
                        /\ textInputData' = textInputData \o charAt(dom.text, k)
                   ELSE /\ lastKoreanCharacter' = EMPTY
                        /\ nextToLastKoreanCharacter' = EMPTY
                        /\ textInputData' = textInputData]_vars
\* what the code does: it throws when no node was captured (line 244); otherwise it
\* looks at the one character at the index and nowhere before it (line 251)
C21_SinglePosition ==
  [][\A data \in Data, dom \in DomConfigs :
       RecoveringEnd(data, dom)
         => LET i == scanFrom(dom)
            IN  /\ threw' <=> anchorNodeAtCompositionStart = NULL
                /\ IF ~threw' /\ isKorean(charAt(dom.text, i))
                   THEN /\ lastKoreanCharacter' = charAt(dom.text, i)
                        /\ nextToLastKoreanCharacter' = charAt(dom.text, i - 1)
                        /\ textInputData' = textInputData \o charAt(dom.text, i)
                        /\ isKoreanOnIE'
                   ELSE /\ lastKoreanCharacter' = EMPTY
                        /\ nextToLastKoreanCharacter' = EMPTY
                        /\ textInputData' = textInputData]_vars
C21_Witness ==
  /\ lastOp = "onCompositionEnd" /\ threw /\ isIE
  /\ anchorNodeAtCompositionStart = NULL /\ timers = 0
\* C22 (as claimed): after every resolveComposition that ran, charInCompUpdate is
\* empty; so a blur that directly follows a blur pushes nothing.
C22_Original ==
  [][/\ resolveRan(calls') => charInCompUpdate' = EMPTY
     /\ (lastOp = "onBlur" /\ lastOp' = "onBlur") => ~hasOp(calls', "push")]_vars
\* what the code does: resolveComposition leaves charInCompUpdate as it is, and a blur
\* that directly follows a blur pushes it again whenever it is not empty
C22_UpdateCharSurvivesResolve ==
  [][/\ Resolves => charInCompUpdate' = charInCompUpdate
     /\ (lastOp = "onBlur" /\ lastOp' = "onBlur")
          => /\ hasOp(calls', "push") <=> charInCompUpdate # EMPTY
             /\ hasOp(calls', "push")
                  => theCall(calls', "replaceText").text = charInCompUpdate]_vars
C22_Witness ==
  /\ lastOp = "onBlur" /\ hasOp(calls, "push") /\ timers = 0 /\ ~everStarted
  /\ theCall(calls, "replaceText").text = JAMO /\ charInCompUpdate = JAMO
\* C23 (as claimed): once resolveComposition has run since the compositionstart that
\* recorded charInCompStart, a compositionend without data does not append that
\* character.
C23_Original ==
  [][(EndWithoutData /\ isIE /\ startCharResolved)
       => textInputData' # textInputData \o charInCompStart]_vars
\* what the code does: resolveComposition leaves charInCompStart as it is, and on IE a
\* compositionend without data appends it whenever it is not empty, whichever
\* compositionstart recorded it
C23_StartCharSurvivesResolve ==
  [][/\ Resolves => charInCompStart' = charInCompStart
     /\ (EndWithoutData /\ isIE /\ charInCompStart # EMPTY)
          => textInputData' = textInputData \o charInCompStart]_vars
C23_Witness ==
  /\ lastOp = "onCompositionEnd" /\ isIE /\ isKoreanOnIE /\ ~resolved
  /\ formerTextInputData = JAMO /\ textInputData = LATIN
  /\ timers = 1 /\ staleTimers = 0
\* this step is a compositionend that directly follows a compositionend and recovers
\* the same two characters from the DOM: the first one found lastKoreanCharacter, so
\* both carry Korean data on IE, and the text and the index read are the same
RepeatedRecoveringEnd ==
  /\ lastOp = "onCompositionEnd" /\ ~threw /\ lastKoreanCharacter # EMPTY
  /\ lastOp' = "onCompositionEnd"
  /\ lastKoreanCharacter' = lastKoreanCharacter
  /\ nextToLastKoreanCharacter' = nextToLastKoreanCharacter

\* C24 (as claimed): a compositionend that repeats the one before it, no timer callback
\* having run in between and the DOM unchanged, leaves textInputData as the first one
\* left it.
C24_Original == [][RepeatedRecoveringEnd => textInputData' = textInputData]_vars
\* what the code does: the repeated compositionend appends the recovered character a
\* second time
C24_RecoveredCharAppendedAgain ==
  [][RepeatedRecoveringEnd
       => /\ textInputData' = textInputData \o lastKoreanCharacter
          /\ lastChar(textInputData) = lastKoreanCharacter]_vars
C24_Witness ==
  /\ lastOp = "onCompositionEnd" /\ ~threw /\ isIE /\ timers = 2 /\ staleTimers = 0
  /\ lastKoreanCharacter = JAMO /\ nextToLastKoreanCharacter = SYL
  /\ textInputData = JAMO \o JAMO /\ formerTextInputData = EMPTY
\* while nextToLastKoreanCharacter is retained, lastKoreanCharacter is retained too,
\* isKoreanOnIE holds and textInputData ends with lastKoreanCharacter
RetainedPair ==
  nextToLastKoreanCharacter # EMPTY
    => /\ lastKoreanCharacter # EMPTY
       /\ isKoreanOnIE
       /\ textInputData # EMPTY
       /\ lastChar(textInputData) = lastKoreanCharacter

\* C25: RetainedPair holds in every state.  Hence a compositionstart that substitutes
\* nextToLastKoreanCharacter (it is retained and the data is not a single non-Korean
\* character on IE) drops exactly lastKoreanCharacter, the character the preceding
\* compositionend appended, and leaves the length of textInputData unchanged.
C25_RetainedPairInvariant ==
  [][/\ RetainedPair'
     /\ (lastOp' = "onCompositionStart" /\ nextToLastKoreanCharacter # EMPTY
           /\ textInputData' # textInputData)
          => /\ Len(textInputData') = Len(textInputData)
             /\ lastChar(textInputData) = lastKoreanCharacter
             /\ lastChar(textInputData') = nextToLastKoreanCharacter
             /\ substring0(textInputData', Len(textInputData) - 1)
                  = substring0(textInputData, Len(textInputData) - 1)]_vars
C25_Witness ==
  /\ lastOp = "input" /\ isKoreanOnIE /\ ~stillComposing
  /\ nextToLastKoreanCharacter = SYL /\ lastKoreanCharacter = JAMO
  /\ textInputData = LATIN \o JAMO
====
